---------------------------- MODULE Spec2Model ----------------------------
(***************************************************************************)
(* WikiFactCheck: the word-probability reconciliation pipeline.            *)
(*                                                                         *)
(* Text is a sequence of one-character strings.  A probability is an       *)
(* integer number of hundredths (0.9 is 90, 0.35 is 35).                   *)
(***************************************************************************)
EXTENDS Integers, Sequences, FiniteSets, TLC

VARIABLES
    pc,          \* position of the running operation
    text,        \* the input text of tokenize_text / split_into_blocks
    target,      \* target_size of split_into_blocks
    tokens,      \* the list tokenize_text returned
    groups,      \* the current_block lists split_into_blocks joined, in order
    blocks,      \* the list split_into_blocks returned / article_blocks
    raw,         \* the probabilities dict given to _normalize_probabilities
    normalized,  \* the dict _normalize_probabilities returned
    bi,          \* analyze_article: index of the block being processed
    si,          \* analyze_article: index of the source being processed
    swp,         \* analyze_article: source_word_probabilities
    warned,      \* analyze_article: warned_words
    warnlog,     \* the "No probability found" warnings emitted, in order
    hist,        \* the scorer requests issued so far, with their responses
    wp,          \* colorize_article: word_probabilities
    colored,     \* colorize_article: colored_text
    resp,        \* the response text given to _parse_response
    parsed,      \* what _parse_response did: the value it returned, or raised
    env,         \* main: the credential and the files of the working directory
    out,         \* main: the messages it has printed or logged, in order
    status,      \* main: <<>> while it runs, <<n>> once the process exited with n
    display,     \* WikiFactCheckGUI: what text_display holds
    shown        \* the renderings of the window so far, with their sources

vars == <<pc, text, target, tokens, groups, blocks, raw, normalized,
          bi, si, swp, warned, warnlog, hist, wp, colored, resp, parsed, env,
          out, status, display, shown>>

---------------------------------------------------------------------------
(* Characters.                                                             *)

\* \w of the regular expressions: letters, digits, underscore
WordChars == {"a", "b", "s", "A", "B", "S", "_", "1"}

\* \s of the regular expressions
SpaceChars == {" ", "\n"}

\* [.!?] of the sentence boundary rule
SentenceEnd == {".", "!", "?"}

\* the characters str.strip is given in analysis.py
StripChars == {".", ",", ";", ":", "?", "!", "(", ")", "[", "]", "{", "}", "\"", "'"}

IsWordChar(c) == c \in WordChars

IsSpace(c) == c \in SpaceChars

\* str.lower on one character
LowerChar(c) == CASE c = "A" -> "a" [] c = "B" -> "b" [] c = "S" -> "s" [] OTHER -> c

\* str.lower
Lower(w) == [k \in 1..Len(w) |-> LowerChar(w[k])]

\* every sequence over S of length at most n
SeqsUpTo(S, n) == UNION {[1..k -> S] : k \in 0..n}

RECURSIVE Concat(_)
\* ''.join of a list of strings
Concat(ss) == IF ss = <<>> THEN <<>> ELSE Head(ss) \o Concat(Tail(ss))

---------------------------------------------------------------------------
(* tokenize_text                                                           *)

\* \b before position p of t
WordBoundary(t, p) ==
    LET before == p > 1 /\ p - 1 <= Len(t) /\ IsWordChar(t[p - 1])
        after  == p <= Len(t) /\ IsWordChar(t[p])
    IN  before # after

RECURSIVE WordRunEnd(_, _)
\* the last position \w+ reaches from p, greedily
WordRunEnd(t, p) ==
    IF p < Len(t) /\ IsWordChar(t[p + 1]) THEN WordRunEnd(t, p + 1) ELSE p

\* a pattern whose last group is \s instead of \s+
SpaceRunEnd_single(t, p) == p

RECURSIVE SpaceRunEnd(_, _)
\* the last position \s+ reaches from p, greedily
SpaceRunEnd(t, p) ==
    IF p < Len(t) /\ IsSpace(t[p + 1]) THEN SpaceRunEnd(t, p + 1) ELSE p

\* a tokenizer that normalises a whitespace run to one blank
SpaceToken_collapsed(t, p, e) == <<<<" ">>, "space">>

\* group 3 of the pattern: the whitespace run, kept as it is
SpaceToken(t, p, e) == <<SubSeq(t, p, e), "space">>

RECURSIVE TokScan(_, _, _)
\* re.finditer over the pattern (\b\w+\b)|([^\w\s])|(\s+), from position p
TokScan(t, p, acc) ==
    IF p > Len(t) THEN acc
    ELSE IF IsWordChar(t[p])
    THEN IF WordBoundary(t, p)
         THEN LET e == WordRunEnd(t, p)
              IN  TokScan(t, e + 1, Append(acc, <<SubSeq(t, p, e), "word">>))
         ELSE TokScan(t, p + 1, acc)     \* no alternative matches here
    ELSE IF ~IsSpace(t[p])
    THEN TokScan(t, p + 1, Append(acc, <<<<t[p]>>, "punctuation">>))
    ELSE LET e == SpaceRunEnd(t, p)
         IN  TokScan(t, e + 1, Append(acc, SpaceToken(t, p, e)))

tokenize_text(t) == TokScan(t, 1, <<>>)

\* words_in_block of analyze_article
WordsOf(toks) ==
    LET isw(tk) == tk[2] = "word"
        sel     == SelectSeq(toks, isw)
    IN  [k \in 1..Len(sel) |-> sel[k][1]]

---------------------------------------------------------------------------
(* The tokenizer on its own.                                               *)

MaxTokLen == 4

TokChars == {"a", "B", "_", ".", " ", "\n"}

\* colorize_article is not running
NoRender == wp = <<>> /\ colored = <<>>

\* _parse_response is not running
NoParse == resp = <<>> /\ parsed = <<>>

\* main is not running
NoEnv == env = <<>> /\ out = <<>> /\ status = <<>>

\* no window is open
NoWindow == display = <<>> /\ shown = <<>>

Idle ==
    /\ tokens = <<>> /\ groups = <<>> /\ blocks = <<>>
    /\ target = 1 /\ raw = <<>> /\ normalized = <<>>
    /\ bi = 1 /\ si = 1 /\ swp = <<>> /\ warned = {} /\ warnlog = <<>>
    /\ hist = <<>>
    /\ NoRender /\ NoParse /\ NoEnv /\ NoWindow

InitTok ==
    /\ pc = "start"
    /\ text \in SeqsUpTo(TokChars, MaxTokLen)
    /\ Idle

Tokenize ==
    /\ pc = "start"
    /\ tokens' = tokenize_text(text)
    /\ pc' = "done"
    /\ UNCHANGED <<text, target, groups, blocks, raw, normalized,
                   bi, si, swp, warned, warnlog, hist,
                   wp, colored, resp, parsed, env,
                   out, status, display, shown>>

NextTok == Tokenize

SpecTok == InitTok /\ [][NextTok]_vars

\* C7: concatenating the token texts returned by tokenize_text, in order,
\* reproduces the input exactly.
C7_RoundTrip ==
    pc = "done" => Concat([k \in 1..Len(tokens) |-> tokens[k][1]]) = text

\* a text holding a word, a punctuation character and a run of two
\* whitespace characters has been tokenized
C7_Witness ==
    /\ pc = "done"
    /\ \E k \in 1..Len(tokens) : tokens[k][2] = "space" /\ Len(tokens[k][1]) >= 2
    /\ \E k \in 1..Len(tokens) : tokens[k][2] = "word"
    /\ \E k \in 1..Len(tokens) : tokens[k][2] = "punctuation"

\* 1 + the number of characters of the tokens before the k-th
RECURSIVE TokStart(_)
TokStart(k) == IF k = 1 THEN 1 ELSE TokStart(k - 1) + Len(tokens[k - 1][1])

\* the maximal runs <<i, j>> of characters of t that satisfy P
MaximalRuns(t, P(_)) ==
    {r \in (1..Len(t)) \X (1..Len(t)) :
        /\ r[1] <= r[2]
        /\ \A q \in r[1]..r[2] : P(t[q])
        /\ r[1] = 1 \/ ~P(t[r[1] - 1])
        /\ r[2] = Len(t) \/ ~P(t[r[2] + 1])}

IsPunct(c) == ~IsWordChar(c) /\ ~IsSpace(c)

\* C8: every maximal run of word characters is exactly one "word" token,
\* every other non-space character is its own "punctuation" token, every
\* maximal run of whitespace is exactly one "space" token, there is no other
\* token, no two adjacent tokens are both "word" or both "space", and the
\* empty input yields the empty sequence.
C8_MaximalRuns ==
    pc = "done" =>
        /\ \A r \in MaximalRuns(text, IsWordChar) :
              \E k \in 1..Len(tokens) :
                  TokStart(k) = r[1] /\ tokens[k] = <<SubSeq(text, r[1], r[2]), "word">>
        /\ \A r \in MaximalRuns(text, IsSpace) :
              \E k \in 1..Len(tokens) :
                  TokStart(k) = r[1] /\ tokens[k] = <<SubSeq(text, r[1], r[2]), "space">>
        /\ \A q \in 1..Len(text) :
              IsPunct(text[q]) =>
                  \E k \in 1..Len(tokens) :
                      TokStart(k) = q /\ tokens[k] = <<<<text[q]>>, "punctuation">>
        /\ Len(tokens) = Cardinality(MaximalRuns(text, IsWordChar))
                         + Cardinality(MaximalRuns(text, IsSpace))
                         + Cardinality({q \in 1..Len(text) : IsPunct(text[q])})
        /\ \A k \in 1..(Len(tokens) - 1) :
              ~(tokens[k][2] = tokens[k + 1][2] /\ tokens[k][2] \in {"word", "space"})
        /\ (text = <<>> => tokens = <<>>)

\* a text made of a two-character word and a two-character whitespace run
\* has been tokenized into two tokens
C8_Witness ==
    /\ pc = "done"
    /\ Len(tokens) = 2
    /\ \E k \in 1..Len(tokens) : tokens[k][2] = "word" /\ Len(tokens[k][1]) = 2
    /\ \E k \in 1..Len(tokens) : tokens[k][2] = "space" /\ Len(tokens[k][1]) = 2

---------------------------------------------------------------------------
(* split_into_blocks                                                       *)

RECURSIVE SplitScan(_, _, _, _)
\* re.split(r'(?<=[.!?])\s+', t) from position p: cur is the piece being
\* read, acc the pieces closed so far
SplitScan(t, p, cur, acc) ==
    IF p > Len(t) THEN Append(acc, cur)
    ELSE IF IsSpace(t[p]) /\ p > 1 /\ t[p - 1] \in SentenceEnd
    THEN SplitScan(t, SpaceRunEnd(t, p) + 1, <<>>, Append(acc, cur))
    ELSE SplitScan(t, p + 1, Append(cur, t[p]), acc)

SplitSentences(t) == SplitScan(t, 1, <<>>, <<>>)

RECURSIVE CountWordsFrom(_, _)
\* the number of matches re.findall(r'\b\w+\b', t) finds from position p
CountWordsFrom(t, p) ==
    IF p > Len(t) THEN 0
    ELSE IF IsWordChar(t[p]) /\ WordBoundary(t, p)
    THEN 1 + CountWordsFrom(t, WordRunEnd(t, p) + 1)
    ELSE CountWordsFrom(t, p + 1)

CountWords(t) == CountWordsFrom(t, 1)

\* a join that puts nothing between the sentences
JoinSpace_nothing(ss) == Concat(ss)

RECURSIVE JoinSpace(_)
\* ' '.join(current_block)
JoinSpace(ss) ==
    IF ss = <<>> THEN <<>>
    ELSE IF Len(ss) = 1 THEN ss[1]
    ELSE ss[1] \o <<" ">> \o JoinSpace(Tail(ss))

\* a test that forgets the words already in the block
FitsBlock_sentenceOnly(cnt, w, T) == w <= T

\* a test that closes a block as soon as it would reach the target
FitsBlock_strict(cnt, w, T) == cnt + w < T

\* current_word_count + words_in_sentence <= target_size
FitsBlock(cnt, w, T) == cnt + w <= T

RECURSIVE Pack(_, _, _, _, _, _)
\* the loop over the sentences from the k-th: done holds the current_block
\* lists already closed, cur is current_block, cnt is current_word_count
Pack(sents, k, T, done, cur, cnt) ==
    IF k > Len(sents)
    THEN IF cur # <<>> THEN Append(done, cur) ELSE done
    ELSE LET w == CountWords(sents[k])
         IN  IF FitsBlock(cnt, w, T)
             THEN Pack(sents, k + 1, T, done, Append(cur, sents[k]), cnt + w)
             ELSE Pack(sents, k + 1, T,
                       IF cur # <<>> THEN Append(done, cur) ELSE done,
                       <<sents[k]>>, w)

\* the lists of sentences that become the blocks, in order
BlockGroups(t, T) == Pack(SplitSentences(t), 1, T, <<>>, <<>>, 0)

split_into_blocks(t, T) ==
    LET gs == BlockGroups(t, T)
    IN  [i \in 1..Len(gs) |-> JoinSpace(gs[i])]

---------------------------------------------------------------------------
(* The blocker on its own.                                                 *)

MaxTextLen == 6

MaxTarget == 2

BlockChars == {"a", ".", " ", "\n"}

InitBlocks ==
    /\ pc = "start"
    /\ text \in SeqsUpTo(BlockChars, MaxTextLen)
    /\ tokens = <<>> /\ groups = <<>> /\ blocks = <<>>
    /\ target \in 1..MaxTarget
    /\ raw = <<>> /\ normalized = <<>>
    /\ bi = 1 /\ si = 1 /\ swp = <<>> /\ warned = {} /\ warnlog = <<>>
    /\ hist = <<>>
    /\ NoRender /\ NoParse /\ NoEnv /\ NoWindow

Split ==
    /\ pc = "start"
    /\ groups' = BlockGroups(text, target)
    /\ blocks' = split_into_blocks(text, target)
    /\ pc' = "done"
    /\ UNCHANGED <<text, target, tokens, raw, normalized,
                   bi, si, swp, warned, warnlog, hist,
                   wp, colored, resp, parsed, env,
                   out, status, display, shown>>

NextBlocks == Split

SpecBlocks == InitBlocks /\ [][NextBlocks]_vars

\* C9: every block returned by split_into_blocks has a word count of at
\* most the target, unless the block consists of exactly one sentence whose
\* own word count exceeds the target.
C9_SizeBound ==
    pc = "done" =>
        \A i \in 1..Len(blocks) :
            \/ CountWords(blocks[i]) <= target
            \/ /\ Len(SplitSentences(blocks[i])) = 1
               /\ CountWords(SplitSentences(blocks[i])[1]) > target

\* a text has been split into a block of one oversized sentence and a
\* block that holds exactly as many words as the target
C9_Witness ==
    /\ pc = "done"
    /\ \E i \in 1..Len(blocks) : CountWords(blocks[i]) > target
    /\ \E i \in 1..Len(blocks) : CountWords(blocks[i]) = target

\* C10: re-splitting each block on the sentence boundary rule yields exactly
\* the sentences assigned to that block, in order, and the sentences of all
\* blocks in block order are exactly the sentences of the text.
C10_SentencesPreserved ==
    pc = "done" =>
        /\ Len(blocks) = Len(groups)
        /\ \A i \in 1..Len(blocks) : SplitSentences(blocks[i]) = groups[i]
        /\ Concat(groups) = SplitSentences(text)

\* a text of three sentences has been split into two blocks, one of which
\* holds two sentences
C10_Witness ==
    /\ pc = "done"
    /\ Len(blocks) = 2
    /\ \E i \in 1..Len(blocks) : Len(groups[i]) = 2
    /\ \A i \in 1..Len(blocks) : \A k \in 1..Len(groups[i]) : groups[i][k] # <<>>

\* C23: for every two consecutive blocks, the word count of the earlier
\* block plus the word count of the first sentence of the later block is
\* strictly greater than the target, and no block is made of no sentence.
C23_GreedyPacking ==
    pc = "done" =>
        /\ \A i \in 1..(Len(blocks) - 1) :
              CountWords(blocks[i]) + CountWords(groups[i + 1][1]) > target
        /\ \A i \in 1..Len(groups) : groups[i] # <<>>

\* with target 2, a one-word sentence was followed by a two-word
\* sentence, which started the second block
C23_Witness ==
    /\ pc = "done"
    /\ target = 2
    /\ Len(blocks) = 2
    /\ CountWords(blocks[1]) = 1
    /\ CountWords(groups[2][1]) = 2

\* C24: every block split_into_blocks returns is a non-empty string; in
\* particular the empty text yields no block and a text that ends in
\* sentence punctuation followed by whitespace yields no empty last block.
C24_NoEmptyBlock ==
    pc = "done" =>
        /\ \A i \in 1..Len(blocks) : blocks[i] # <<>>
        /\ (text = <<>> => blocks = <<>>)

---------------------------------------------------------------------------
(* _normalize_probabilities                                                *)
(*                                                                         *)
(* A dict of the scorer is a sequence of entries <<word, prob>> with       *)
(* distinct words, in iteration order.  prob is a JSON value: a number     *)
(* [t |-> "num"], a string that float() parses [t |-> "numstr"], any other *)
(* string [t |-> "text"], or null [t |-> "null"]; v is the number in       *)
(* hundredths.  A dict the program builds is a function from its keys.     *)

\* float(prob) returns: a number, or a string that holds one
FloatOK(prob) == prob.t \in {"num", "numstr"}

\* the value float(prob) returns
FloatVal(prob) == prob.v

Max2(x, y) == IF x >= y THEN x ELSE y

\* d[k] = v
Put(d, k, v) == [x \in DOMAIN d \cup {k} |-> IF x = k THEN v ELSE d[x]]

RECURSIVE LStrip(_)
LStrip(w) == IF w # <<>> /\ Head(w) \in StripChars THEN LStrip(Tail(w)) ELSE w

RECURSIVE RStrip(_)
RStrip(w) ==
    IF w # <<>> /\ w[Len(w)] \in StripChars
    THEN RStrip(SubSeq(w, 1, Len(w) - 1)) ELSE w

\* w.strip('.,;:?!()[]{}"\'')
Strip(w) == RStrip(LStrip(w))

\* w.endswith("'s")
EndsWithPossessive(w) ==
    Len(w) >= 2 /\ w[Len(w) - 1] = "'" /\ w[Len(w)] = "s"

\* a normalizer that records the exact lowercase key only
NormalizeEntry_exactOnly(n, word, prob) ==
    IF ~FloatOK(prob) THEN n ELSE Put(n, Lower(word), FloatVal(prob))

\* a normalizer that records an entry it cannot parse as 0
NormalizeEntry_zeroInvalid(n, word, prob) ==
    Put(n, Lower(word), IF FloatOK(prob) THEN FloatVal(prob) ELSE 0)

\* the body of the loop of _normalize_probabilities for one entry
NormalizeEntry(n, word, prob) ==
    IF ~FloatOK(prob) THEN n        \* ValueError, TypeError: a warning
    ELSE
    LET f  == FloatVal(prob)
        lw == Lower(word)
        n1 == Put(n, lw, f)
        st == Strip(lw)
        n2 == IF st # <<>> /\ st # lw
              THEN IF st \in DOMAIN n1
                   THEN Put(n1, st, Max2(n1[st], f))
                   ELSE Put(n1, st, f)
              ELSE n1
        base == SubSeq(lw, 1, Len(lw) - 2)
        n3 == IF EndsWithPossessive(lw)
              THEN IF base \notin DOMAIN n2 \/ f > n2[base]
                   THEN Put(n2, base, f)
                   ELSE n2
              ELSE n2
    IN  n3

RECURSIVE NormalizeFrom(_, _, _)
NormalizeFrom(probabilities, k, n) ==
    IF k > Len(probabilities) THEN n
    ELSE NormalizeFrom(probabilities, k + 1,
                       NormalizeEntry(n, probabilities[k][1], probabilities[k][2]))

normalize_probabilities(probabilities) == NormalizeFrom(probabilities, 1, <<>>)

---------------------------------------------------------------------------
(* The normalizer on its own.                                              *)

MaxRaw == 2

\* "A"  "a"  "a,"  "a's"  "b"  "'s"
NormWords ==
    {<<"A">>, <<"a">>, <<"a", ",">>, <<"a", "'", "s">>, <<"b">>, <<"'", "s">>}

\* 0.3  0.9  "0.5"  "high"  1.5  -0.2
NormProbs ==
    {[t |-> "num", v |-> 30], [t |-> "num", v |-> 90],
     [t |-> "numstr", v |-> 50], [t |-> "text", v |-> 0],
     [t |-> "num", v |-> 150], [t |-> "num", v |-> -20]}

\* the dicts of at most n entries: no word is a key twice
RawDicts(W, P, n) ==
    {d \in SeqsUpTo(W \X P, n) :
        \A i, j \in 1..Len(d) : i # j => d[i][1] # d[j][1]}

InitNorm ==
    /\ pc = "start"
    /\ raw \in RawDicts(NormWords, NormProbs, MaxRaw)
    /\ text = <<>> /\ target = 1
    /\ tokens = <<>> /\ groups = <<>> /\ blocks = <<>>
    /\ normalized = <<>>
    /\ bi = 1 /\ si = 1 /\ swp = <<>> /\ warned = {} /\ warnlog = <<>>
    /\ hist = <<>>
    /\ NoRender /\ NoParse /\ NoEnv /\ NoWindow

Normalize ==
    /\ pc = "start"
    /\ normalized' = normalize_probabilities(raw)
    /\ pc' = "done"
    /\ UNCHANGED <<text, target, tokens, groups, blocks, raw,
                   bi, si, swp, warned, warnlog, hist,
                   wp, colored, resp, parsed, env,
                   out, status, display, shown>>

NextNorm == Normalize

SpecNorm == InitNorm /\ [][NextNorm]_vars

\* the keys a raw word canonicalizes to: its lowercase form, that form with
\* the punctuation stripped, and that form without a trailing 's
CanonKeys(word) ==
    {Lower(word)}
    \cup (IF Strip(Lower(word)) # <<>> THEN {Strip(Lower(word))} ELSE {})
    \cup (IF EndsWithPossessive(Lower(word))
          THEN {SubSeq(Lower(word), 1, Len(word) - 2)} ELSE {})

\* the probabilities of the valid raw entries that canonicalize to key
ValuesFor(d, key) ==
    {FloatVal(d[i][2]) : i \in {j \in 1..Len(d) :
                                  FloatOK(d[j][2]) /\ key \in CanonKeys(d[j][1])}}

SetMax(S) == CHOOSE x \in S : \A y \in S : y <= x

\* C3: in the map _normalize_probabilities returns, every key's value is
\* the maximum probability among the valid raw entries that canonicalize to
\* that key, whatever the order of the raw entries.
C3_MaxOfCanonical ==
    pc = "done" =>
        \A key \in DOMAIN normalized :
            /\ ValuesFor(raw, key) # {}
            /\ normalized[key] = SetMax(ValuesFor(raw, key))

\* no two raw entries canonicalize to the same key
DistinctCanon(d) ==
    \A i, j \in 1..Len(d) :
        i # j => CanonKeys(d[i][1]) \cap CanonKeys(d[j][1]) = {}

\* C11: when no two raw entries canonicalize to the same key, the map
\* _normalize_probabilities returns gives, for every raw entry whose
\* probability is a number, that probability to the entry's lowercase word,
\* to its punctuation-stripped form when non-empty, and to its form without
\* a trailing 's.
C11_DistinctKeysKept ==
    (pc = "done" /\ DistinctCanon(raw)) =>
        \A i \in 1..Len(raw) :
            FloatOK(raw[i][2]) =>
                \A key \in CanonKeys(raw[i][1]) :
                    key \in DOMAIN normalized
                    /\ normalized[key] = FloatVal(raw[i][2])

\* a map of two numeric entries with distinct canonical keys has been
\* normalized: one word ends with 's, the other carries punctuation
C11_Witness ==
    /\ pc = "done"
    /\ Len(raw) = 2
    /\ DistinctCanon(raw)
    /\ FloatOK(raw[1][2]) /\ FloatOK(raw[2][2])
    /\ FloatVal(raw[1][2]) # FloatVal(raw[2][2])
    /\ \E i \in 1..2 : EndsWithPossessive(Lower(raw[i][1]))
    /\ \E i \in 1..2 : Strip(Lower(raw[i][1])) \notin {<<>>, Lower(raw[i][1])}
    /\ Cardinality(DOMAIN normalized) = 5

\* the raw entries whose probability float() parses, in order
ParsableEntries(d) ==
    LET ok(e) == FloatOK(e[2]) IN SelectSeq(d, ok)

\* C12: the map _normalize_probabilities returns is the one it returns for
\* the same raw map without the entries whose probability does not parse
\* as a number: such an entry adds no key and changes no key, and the
\* other entries are normalized as if it were absent.
C12_UnparsableDropped ==
    pc = "done" => normalized = normalize_probabilities(ParsableEntries(raw))

\* a map that holds an entry that does not parse and one that does, whose
\* canonical keys overlap, has been normalized
C12_Witness ==
    /\ pc = "done"
    /\ Len(raw) = 2
    /\ \E i, j \in 1..2 :
          /\ ~FloatOK(raw[i][2]) /\ FloatOK(raw[j][2])
          /\ CanonKeys(raw[i][1]) \cap CanonKeys(raw[j][1]) # {}
          /\ Lower(raw[i][1]) \notin DOMAIN normalized
    /\ normalized # <<>>

\* C13: no key of the map _normalize_probabilities returns holds a value
\* below 0 or above 1: a raw entry whose probability is out of that range
\* is rejected.
C13_InRange ==
    pc = "done" =>
        \A key \in DOMAIN normalized :
            0 <= normalized[key] /\ normalized[key] <= 100

---------------------------------------------------------------------------
(* The scorer and OpenAIClient                                             *)
(*                                                                         *)
(* What chat.completions.create does for one request is a record:          *)
(*   raises  the call raises (network failure, timeout);                   *)
(*   pre     the text before the body: "" (none), "prose" (words without   *)
(*           braces) or "prose{" (words that hold an opening brace);       *)
(*   body    the JSON-looking part;                                        *)
(*   post    the text after the body: "", "prose", or "prose}" (words      *)
(*           that hold a closing brace).                                   *)
(* A body is a record: t is "none" (no such part), "broken" (a span in     *)
(* braces that is not JSON), "num", "null", "list", "str" (JSON values     *)
(* that are not objects; the list and the string do not hold the word      *)
(* probabilities) or "obj"; for an object, hasP says whether it has the    *)
(* key "probabilities", pt is the type of that key's value ("map", "list", *)
(* "num", "null") and m the dict when it is a map.                         *)

Body(t, hasP, pt, m) == [t |-> t, hasP |-> hasP, pt |-> pt, m |-> m]

\* {"probabilities": {}}
EmptyProbabilities == Body("obj", TRUE, "map", <<>>)

\* json.loads(response_text) succeeds: the text is one JSON value
IsPureJson(r) ==
    r.pre = "" /\ r.post = "" /\ r.body.t \notin {"none", "broken"}

\* re.search(r'({.*})', response_text, re.DOTALL) finds a span: the text
\* holds an opening brace and a closing brace after it
HasBraceSpan(r) ==
    \/ r.body.t \in {"obj", "broken"}
    \/ r.pre = "prose{" /\ r.post = "prose}"

\* json.loads(json_match.group(1)) succeeds: the span from the first
\* opening brace to the last closing brace is exactly the object
SpanIsJson(r) ==
    r.body.t = "obj" /\ r.pre # "prose{" /\ r.post # "prose}"

\* _parse_response: exc says whether it raises, val is what it returns
parse_response(r) ==
    IF IsPureJson(r) THEN [exc |-> FALSE, val |-> r.body]
    ELSE IF HasBraceSpan(r)
    THEN IF SpanIsJson(r)
         THEN [exc |-> FALSE, val |-> r.body]
         ELSE [exc |-> TRUE, val |-> EmptyProbabilities]  \* JSONDecodeError
    ELSE [exc |-> FALSE, val |-> EmptyProbabilities]

\* query_for_fact_check: every exception becomes {"probabilities": {}}
query_for_fact_check(r) ==
    IF r.raises THEN EmptyProbabilities
    ELSE IF parse_response(r).exc THEN EmptyProbabilities
    ELSE parse_response(r).val

---------------------------------------------------------------------------
(* _parse_response on its own.                                             *)

\* the texts around the body
PreTexts == {"", "prose", "prose{"}

PostTexts == {"", "prose", "prose}"}

\* the bodies: no JSON-looking part, {not json}, 5, null, [1], "x", {},
\* {"probabilities": {}}, {"probabilities": {"A": 0.9}} and
\* {"probabilities": [1]}
BodyPool ==
    { Body("none", FALSE, "null", <<>>), Body("broken", FALSE, "null", <<>>),
      Body("num", FALSE, "null", <<>>), Body("null", FALSE, "null", <<>>),
      Body("list", FALSE, "null", <<>>), Body("str", FALSE, "null", <<>>),
      Body("obj", FALSE, "null", <<>>), Body("obj", TRUE, "map", <<>>),
      Body("obj", TRUE, "map", << <<<<"A">>, [t |-> "num", v |-> 90]>> >>),
      Body("obj", TRUE, "list", <<>>) }

InitParse ==
    /\ pc = "start"
    /\ resp \in {[raises |-> FALSE, pre |-> a, body |-> b, post |-> c] :
                    a \in PreTexts, b \in BodyPool, c \in PostTexts}
    /\ parsed = <<>>
    /\ text = <<>> /\ target = 1
    /\ tokens = <<>> /\ groups = <<>> /\ blocks = <<>>
    /\ raw = <<>> /\ normalized = <<>>
    /\ bi = 1 /\ si = 1 /\ swp = <<>> /\ warned = {} /\ warnlog = <<>>
    /\ hist = <<>>
    /\ NoRender /\ NoEnv /\ NoWindow

Parse ==
    /\ pc = "start"
    /\ parsed' = parse_response(resp)
    /\ pc' = IF parse_response(resp).exc THEN "raised" ELSE "done"
    /\ UNCHANGED <<text, target, tokens, groups, blocks, raw, normalized,
                   bi, si, swp, warned, warnlog, hist, wp, colored, resp, env,
                   out, status, display, shown>>

NextParse == Parse

SpecParse == InitParse /\ [][NextParse]_vars

\* C17: when the response text is one JSON object, alone or with prose
\* around it that holds no opening brace before the object, whatever the
\* prose after the object holds, _parse_response returns that object.
C17_ObjectExtracted ==
    (pc # "start" /\ resp.body.t = "obj" /\ resp.pre # "prose{") =>
        /\ pc = "done"
        /\ parsed = [exc |-> FALSE, val |-> resp.body]

\* C18: when the response text holds no JSON value at all, be it text
\* without braces or text with a span in braces that is not JSON,
\* _parse_response returns {"probabilities": {}} and does not raise.
C18_NoObjectEmptyMap ==
    (pc # "start" /\ resp.body.t \in {"none", "broken"}) =>
        /\ pc = "done"
        /\ parsed = [exc |-> FALSE, val |-> EmptyProbabilities]

---------------------------------------------------------------------------
(* ArticleAnalyzer                                                         *)

\* a reconciliation that puts the new score in front of the list
AppendScore_front(list, v) == <<v>> \o list

\* source_probabilities[word_lower].append(...)
AppendScore(list, v) == Append(list, v)

\* a reconciliation that starts the list anew for every word it meets
EnsureList_always(sp, lw) == Put(sp, lw, <<>>)

\* if word_lower not in source_probabilities: ... = []
EnsureList(sp, lw) == IF lw \in DOMAIN sp THEN sp ELSE Put(sp, lw, <<>>)

\* a reconciliation that warns whenever a word is unmatched
ShouldWarn_always(lw, w) == TRUE

\* if word_lower not in warned_words
ShouldWarn(lw, w) == lw \notin w

\* the body of the loop of _process_probabilities for one word; st holds
\* source_probabilities (sp), warned_words (warned) and the warnings (log)
ProcessWord(bp, st, word) ==
    LET lw  == Lower(word)
        sp1 == EnsureList(st.sp, lw)
        sw  == Strip(lw)
    IN  IF lw \in DOMAIN bp
        THEN [st EXCEPT !.sp = Put(sp1, lw, AppendScore(sp1[lw], bp[lw]))]
        ELSE IF sw \in DOMAIN bp
        THEN [st EXCEPT !.sp = Put(sp1, lw, AppendScore(sp1[lw], bp[sw]))]
        ELSE [sp     |-> Put(sp1, lw, AppendScore(sp1[lw], 0)),
              warned |-> IF ShouldWarn(lw, st.warned)
                         THEN st.warned \cup {lw} ELSE st.warned,
              log    |-> IF ShouldWarn(lw, st.warned)
                         THEN Append(st.log, lw) ELSE st.log]

RECURSIVE ProcessWords(_, _, _, _)
ProcessWords(bp, words, k, st) ==
    IF k > Len(words) THEN st
    ELSE ProcessWords(bp, words, k + 1, ProcessWord(bp, st, words[k]))

\* _process_probabilities(probabilities, words_in_block,
\*                        source_probabilities, warned_words)
process_probabilities(probabilities, words, st) ==
    ProcessWords(normalize_probabilities(probabilities), words, 1, st)

\* an analyzer whose sources all hold the same dict object
StoreLists_shared(d, src, sp) == [s \in DOMAIN d |-> sp]

\* source_word_probabilities[source_name] is the dict the lists were
\* appended to: the dict of this source alone
StoreLists(d, src, sp) == [d EXCEPT ![src] = sp]

\* "probabilities" in response raises TypeError: response is a number or None
MembershipRaises(v) == v.t \in {"num", "null"}

\* "probabilities" in response
HasProbabilities(v) == v.t = "obj" /\ v.hasP

\* response["probabilities"].items() raises AttributeError
ItemsRaises(v) == HasProbabilities(v) /\ v.pt # "map"

\* sources.keys(), in the order of the dict
SourceNames == <<"source1.txt", "source2.txt">>

\* "A a."  "b a"
BlockPool == {<<"A", " ", "a", ".">>, <<"b", " ", "a">>}

MaxBlocks == 2

\* {"A": 0.9, "b,": "0.2"}
ScoresAll == << <<<<"A">>, [t |-> "num", v |-> 90]>>,
                <<<<"b", ",">>, [t |-> "numstr", v |-> 20]>> >>

\* {"a's": 0.5, "b": "high"}
ScoresSome == << <<<<"a", "'", "s">>, [t |-> "num", v |-> 50]>>,
                 <<<<"b">>, [t |-> "text", v |-> 0]>> >>

Response(raises, pre, body, post) ==
    [raises |-> raises, pre |-> pre, body |-> body, post |-> post]

ScorerResponses ==
    { Response(TRUE, "", Body("none", FALSE, "null", <<>>), ""),        \* the call raises
      Response(FALSE, "prose", Body("none", FALSE, "null", <<>>), ""),  \* Invalid JSON
      Response(FALSE, "prose", Body("broken", FALSE, "null", <<>>), "prose"),  \* see {not json} here
      Response(FALSE, "", Body("obj", FALSE, "null", <<>>), ""),        \* {}
      Response(FALSE, "", Body("obj", TRUE, "map", ScoresAll), ""),
      Response(FALSE, "prose", Body("obj", TRUE, "map", ScoresSome), "prose"),
      Response(FALSE, "", Body("num", FALSE, "null", <<>>), ""),        \* 5
      Response(FALSE, "", Body("obj", TRUE, "list", <<>>), "") }        \* {"probabilities": [1]}

Init ==
    /\ pc = "run"
    /\ blocks \in SeqsUpTo(BlockPool, MaxBlocks)
    /\ text = <<>> /\ target = 1 /\ tokens = <<>> /\ groups = <<>>
    /\ raw = <<>> /\ normalized = <<>>
    /\ bi = 1 /\ si = 1
    /\ swp = [s \in {SourceNames[k] : k \in 1..Len(SourceNames)} |-> <<>>]
    /\ warned = {}
    /\ warnlog = <<>>
    /\ hist = <<>>
    /\ NoRender /\ NoParse /\ NoEnv /\ NoWindow

\* one pass of the inner loop of analyze_article: the request for the pair
\* (blocks[bi], SourceNames[si]) and the reconciliation of its response;
\* after the last pair the loops end and the result is returned
AnalyzePair ==
    /\ pc = "run"
    /\ bi <= Len(blocks)
    /\ \E r \in ScorerResponses :
         LET response == query_for_fact_check(r)
             words    == WordsOf(tokenize_text(blocks[bi]))
             src      == SourceNames[si]
             st       == process_probabilities(
                             response.m, words,
                             [sp |-> swp[src], warned |-> warned, log |-> warnlog])
         IN  /\ hist' = Append(hist, [b |-> bi, s |-> src, r |-> r])
             /\ IF MembershipRaises(response) \/ ItemsRaises(response)
                THEN /\ pc' = "raised"
                     /\ UNCHANGED <<bi, si, swp, warned, warnlog>>
                ELSE /\ pc' = IF bi = Len(blocks) /\ si = Len(SourceNames)
                                 THEN "done" ELSE "run"    \* the last pair returns
                     /\ IF HasProbabilities(response)
                        THEN /\ swp' = StoreLists(swp, src, st.sp)
                             /\ warned' = st.warned
                             /\ warnlog' = st.log
                        ELSE UNCHANGED <<swp, warned, warnlog>>
                     /\ IF si < Len(SourceNames)
                        THEN si' = si + 1 /\ bi' = bi
                        ELSE si' = 1 /\ bi' = bi + 1
    /\ UNCHANGED <<text, target, tokens, groups, blocks, raw, normalized,
                   wp, colored, resp, parsed, env,
                   out, status, display, shown>>

\* no block to process: return source_word_probabilities
AnalyzeReturn ==
    /\ pc = "run"
    /\ bi > Len(blocks)
    /\ pc' = "done"
    /\ UNCHANGED <<text, target, tokens, groups, blocks, raw, normalized,
                   bi, si, swp, warned, warnlog, hist,
                   wp, colored, resp, parsed, env,
                   out, status, display, shown>>

Next == AnalyzePair \/ AnalyzeReturn

Spec == Init /\ [][Next]_vars

---------------------------------------------------------------------------
(* Properties of analyze_article.                                          *)

Sources == {SourceNames[k] : k \in 1..Len(SourceNames)}

\* the lowercase forms of the word tokens of block b, in block order
BlockWords(b) ==
    LET ws == WordsOf(tokenize_text(blocks[b]))
    IN  [k \in 1..Len(ws) |-> Lower(ws[k])]

\* how many times w occurs in the sequence ws
CountIn(ws, w) == Cardinality({k \in 1..Len(ws) : ws[k] = w})

ArticleWords ==
    UNION {{BlockWords(b)[k] : k \in 1..Len(BlockWords(b))} : b \in 1..Len(blocks)}

RECURSIVE OccBlocksUpTo(_, _)
\* the blocks that hold the occurrences of w, one entry per occurrence,
\* counted over the first n blocks in list order
OccBlocksUpTo(w, n) ==
    IF n = 0 THEN <<>>
    ELSE OccBlocksUpTo(w, n - 1) \o [k \in 1..CountIn(BlockWords(n), w) |-> n]

OccBlocks(w) == OccBlocksUpTo(w, Len(blocks))

\* the score list of word w under source s, empty when there is none
ListOf(s, w) == IF w \in DOMAIN swp[s] THEN swp[s][w] ELSE <<>>

Zeros(n) == [k \in 1..n |-> 0]

\* the response the pair (b, s) got
PairResponse(b, s) ==
    hist[CHOOSE k \in 1..Len(hist) : hist[k].b = b /\ hist[k].s = s].r

\* the response is a JSON object, pure or embedded, with a "probabilities" map
CarriesMap(r) ==
    /\ ~r.raises
    /\ ~parse_response(r).exc
    /\ parse_response(r).val.t = "obj"
    /\ parse_response(r).val.hasP
    /\ parse_response(r).val.pt = "map"
    /\ r.body.t = "obj"

\* the normalized map of the pair whose response is r
NormOf(r) == normalize_probabilities(query_for_fact_check(r).m)

ValueIn(n, w) == IF w \in DOMAIN n THEN n[w] ELSE 0

\* the call raised, or returned text from which no JSON can be parsed
FailedCall(r) ==
    \/ r.raises
    \/ r.body.t \in {"none", "broken"}
    \/ r.body.t = "obj" /\ (r.pre = "prose{" \/ r.post = "prose}")

\* a probabilities map, an empty map, a failed call, or an object that has
\* no "probabilities" key
C1Kind(r) ==
    \/ CarriesMap(r)
    \/ FailedCall(r)
    \/ ~r.raises /\ r.body.t = "obj" /\ ~r.body.hasP

\* C1: after analyze_article returns, for every source and every lowercase
\* word, the length of the score list equals the number of word-token
\* occurrences of the word across all blocks, whether the responses were
\* maps, failed calls or objects without a "probabilities" key.
C1_FullLength ==
    (pc = "done" /\ \A k \in 1..Len(hist) : C1Kind(hist[k].r)) =>
        \A s \in Sources : \A w \in ArticleWords :
            Len(ListOf(s, w)) = Len(OccBlocks(w))

\* C2: when every response carries a "probabilities" map, the k-th entry of
\* word w's list under source s is the value the normalized map of the pair
\* (block of the k-th occurrence of w, s) gives w (0 when it gives none),
\* occurrences counted over the blocks in list order.
C2_OccurrenceOrder ==
    (pc = "done" /\ \A k \in 1..Len(hist) : CarriesMap(hist[k].r)) =>
        \A s \in Sources : \A w \in ArticleWords :
            /\ Len(ListOf(s, w)) = Len(OccBlocks(w))
            /\ \A k \in 1..Len(OccBlocks(w)) :
                  ListOf(s, w)[k] = ValueIn(NormOf(PairResponse(OccBlocks(w)[k], s)), w)

\* two blocks that each hold "a" once were scored 0.9 and then 0.5
C2_Witness ==
    /\ pc = "done"
    /\ Len(blocks) = 2
    /\ \A k \in 1..Len(hist) : CarriesMap(hist[k].r)
    /\ CountIn(BlockWords(1), <<"a">>) = 1
    /\ ListOf(SourceNames[1], <<"a">>) = <<90, 50>>

\* C4: whatever the scorer returns for a pair, analyze_article raises no
\* exception, processes every remaining pair and returns a result.
C4_NeverRaises ==
    /\ pc # "raised"
    /\ pc = "done" => Len(hist) = Len(blocks) * Len(SourceNames)

\* what a failed pair h does to the lists: ws are the words of its block
C5_Effect(h, ws) ==
    /\ pc' # "raised"
    /\ <<bi', si'>> # <<bi, si>>
    /\ \A s \in Sources \ {h.s} : swp'[s] = swp[s]
    /\ DOMAIN swp'[h.s] = DOMAIN swp[h.s] \cup {ws[k] : k \in 1..Len(ws)}
    /\ \A w \in DOMAIN swp'[h.s] :
          swp'[h.s][w] = ListOf(h.s, w) \o Zeros(CountIn(ws, w))

\* the call raises, or the text it returns holds no JSON object that can be
\* parsed: text that is not JSON, or JSON that is a number, null, a list or
\* a string
NoObjectParsed(r) ==
    \/ FailedCall(r)
    \/ ~r.raises /\ r.body.t \in {"num", "null", "list", "str"}

\* the step that processes a pair whose call failed
C5_Step ==
    (hist' # hist /\ NoObjectParsed(hist'[Len(hist')].r)) =>
        \A h \in {hist'[Len(hist')]} : \A ws \in {BlockWords(h.b)} :
            C5_Effect(h, ws)

\* C5: a pair whose call raises or returns text from which no JSON object
\* can be parsed appends exactly one 0 per word token of its block to its
\* own source's lists and leaves the other sources alone; a run with such
\* a pair never ends in an exception, and a run that returns has processed
\* every pair.
C5_FailedPairZeros ==
    /\ [][C5_Step]_vars
    /\ []((\E k \in 1..Len(hist) : NoObjectParsed(hist[k].r)) => pc # "raised")
    /\ [](pc = "done" => Len(hist) = Len(blocks) * Len(SourceNames))

\* what the reconciliation of pair h does: ws are the words of its block
\* and unm those that the pair's normalized map does not hold
C6_Effect(h, ws, unm) ==
    /\ \A w \in unm :
          swp'[h.s][w] = ListOf(h.s, w) \o Zeros(CountIn(ws, w))
    /\ {warnlog'[i] : i \in 1..Len(warnlog')}
          = {warnlog[i] : i \in 1..Len(warnlog)} \cup unm
    /\ SubSeq(warnlog', 1, Len(warnlog)) = warnlog

\* the step that reconciles a pair
C6_Step ==
    (hist' # hist /\ pc' # "raised"
       /\ HasProbabilities(query_for_fact_check(hist'[Len(hist')].r))) =>
        \A h \in {hist'[Len(hist')]} :
        \A ws \in {BlockWords(h.b)} :
        \A n \in {NormOf(h.r)} :
            C6_Effect(h, ws, {ws[k] : k \in {j \in 1..Len(ws) : ws[j] \notin DOMAIN n}})

\* C6: a block word that the normalized map of its own pair does not hold
\* gets exactly one 0 appended per occurrence, whatever earlier blocks
\* scored; every such word is warned about, and no lowercase word is warned
\* about twice in a run.
C6_SentinelAndWarnOnce ==
    /\ [][C6_Step]_vars
    /\ [](\A i, j \in 1..Len(warnlog) : i # j => warnlog[i] # warnlog[j])

\* "b" was scored 0.2 in the first block and left unmatched by both sources
\* in the second: it got a 0 each time and one warning
C6_Witness ==
    /\ pc = "done"
    /\ Len(blocks) = 2
    /\ ListOf(SourceNames[1], <<"b">>) = <<20, 0>>
    /\ ListOf(SourceNames[2], <<"b">>) = <<20, 0>>
    /\ warnlog = << <<"b">> >>

\* list a is a prefix of list b
IsPrefix(a, b) == Len(a) <= Len(b) /\ SubSeq(b, 1, Len(a)) = a

\* the step that processes the pair of request h
C22_Step ==
    hist' # hist =>
        \A h \in {hist'[Len(hist')]} :
            /\ \A s \in Sources \ {h.s} : swp'[s] = swp[s]
            /\ \A w \in DOMAIN swp[h.s] :
                  /\ w \in DOMAIN swp'[h.s]
                  /\ IsPrefix(swp[h.s][w], swp'[h.s][w])

\* C22: processing the pair (block b, source s) leaves every list of
\* every other source as it was, which it could not if two sources shared
\* a list, and every list s had before the step is a prefix of what it is
\* after the step.
C22_OwnListsAppendOnly == [][C22_Step]_vars

\* both sources have scored "A a." and "b a", each with its own values
C22_Witness ==
    /\ pc = "done"
    /\ Len(blocks) = 2
    /\ ListOf(SourceNames[1], <<"a">>) = <<90, 90, 50>>
    /\ ListOf(SourceNames[2], <<"a">>) = <<50, 50, 90>>

\* the loops are synchronous: a request returns or raises, and the next
\* statement runs
SpecFair == Spec /\ WF_vars(Next)

\* the k-th request of a run in block-major order is for block
\* (k-1) div |sources| + 1 and source (k-1) mod |sources| + 1
InPairOrder(k) ==
    /\ hist[k].b = ((k - 1) \div Len(SourceNames)) + 1
    /\ hist[k].s = SourceNames[((k - 1) % Len(SourceNames)) + 1]

\* C16: the requests of a run are issued in block-major order, one per
\* (block, source) pair and none twice; the run ends by returning, after
\* exactly |blocks| x |sources| requests, a result that holds an entry for
\* every source, also when there are no blocks.
C16_OneRequestPerPair ==
    /\ [](\A k \in 1..Len(hist) : InPairOrder(k))
    /\ [](Len(hist) <= Len(blocks) * Len(SourceNames))
    /\ [](pc # "raised")
    /\ <>(/\ pc = "done"
          /\ Len(hist) = Len(blocks) * Len(SourceNames)
          /\ DOMAIN swp = Sources)

---------------------------------------------------------------------------
(* colorize_article (visualization/terminal.py)                            *)
(*                                                                         *)
(* word_probabilities is a function from lowercase words to score lists.   *)
(* An element of colored_text is a pair <<colour, token>>: colour is       *)
(* "green", "yellow" or "red" for a token wrapped in that colour's escape  *)
(* sequence and the reset sequence, "none" for a token appended as it is.  *)

HIGH_SUPPORT_THRESHOLD == 70

PARTIAL_SUPPORT_THRESHOLD == 35

\* a projector that takes a probability equal to a threshold as above it
TierOf_inclusive(prob) ==
    IF prob >= HIGH_SUPPORT_THRESHOLD THEN "green"
    ELSE IF prob >= PARTIAL_SUPPORT_THRESHOLD THEN "yellow"
    ELSE "red"

\* the colour the if / elif / else on prob chooses
TierOf(prob) ==
    IF prob > HIGH_SUPPORT_THRESHOLD THEN "green"
    ELSE IF prob > PARTIAL_SUPPORT_THRESHOLD THEN "yellow"
    ELSE "red"

\* a counter that is shared by all the words
Occurrence_shared(occ, lw) ==
    IF occ = <<>> THEN 0
    ELSE 1 + (CHOOSE m \in {occ[w] : w \in DOMAIN occ} :
                 \A w \in DOMAIN occ : occ[w] <= m)

\* word_occurrences[word_lower] after the update: 0 at the first occurrence
Occurrence(occ, lw) == IF lw \notin DOMAIN occ THEN 0 ELSE occ[lw] + 1

\* the element appended to colored_text for a word token
ColorWord(probs, token, cur) ==
    LET lw == Lower(token)
    IN  IF lw \in DOMAIN probs /\ cur < Len(probs[lw])
        THEN <<TierOf(probs[lw][cur + 1]), token>>
        ELSE <<"red", token>>

RECURSIVE ColorScan(_, _, _, _, _)
\* the loop over the tokens from the k-th: occ is word_occurrences, acc is
\* colored_text
ColorScan(toks, k, probs, occ, acc) ==
    IF k > Len(toks) THEN acc
    ELSE IF toks[k][2] = "word"
    THEN LET lw  == Lower(toks[k][1])
             cur == Occurrence(occ, lw)
         IN  ColorScan(toks, k + 1, probs, Put(occ, lw, cur),
                       Append(acc, ColorWord(probs, toks[k][1], cur)))
    ELSE ColorScan(toks, k + 1, probs, occ, Append(acc, <<"none", toks[k][1]>>))

\* colored_text when the loop of colorize_article ends
ColoredText(t, probs) == ColorScan(tokenize_text(t), 1, probs, <<>>, <<>>)

\* Fore.GREEN, Fore.YELLOW, Fore.RED: one character stands for the sequence
ForeCode(colour) ==
    CASE colour = "green"  -> "ESC[32m"
      [] colour = "yellow" -> "ESC[33m"
      [] colour = "red"    -> "ESC[31m"

\* Style.RESET_ALL
ResetCode == "ESC[0m"

\* the string one element of colored_text stands for
Piece(e) ==
    IF e[1] = "none" THEN e[2] ELSE <<ForeCode(e[1])>> \o e[2] \o <<ResetCode>>

\* colorize_article(text, word_probabilities): ''.join(colored_text)
colorize_article(t, probs) ==
    LET ct == ColoredText(t, probs)
    IN  Concat([k \in 1..Len(ct) |-> Piece(ct[k])])

---------------------------------------------------------------------------
(* The projector on its own.                                               *)

MaxColorLen == 5

ColorChars == {"a", "A", " ", "."}

\* 0.35  0.5  0.7  0.9
ScorePool == {35, 50, 70, 90}

\* the score lists of "a": as many entries as a text can hold words
ScoreLists == SeqsUpTo(ScorePool, (MaxColorLen + 1) \div 2)

InitColor ==
    /\ pc = "start"
    /\ text \in SeqsUpTo(ColorChars, MaxColorLen)
    /\ wp \in {<<>>} \cup {Put(<<>>, <<"a">>, l) : l \in ScoreLists}
    /\ colored = <<>>
    /\ tokens = <<>> /\ groups = <<>> /\ blocks = <<>>
    /\ target = 1 /\ raw = <<>> /\ normalized = <<>>
    /\ bi = 1 /\ si = 1 /\ swp = <<>> /\ warned = {} /\ warnlog = <<>>
    /\ hist = <<>>
    /\ NoParse /\ NoEnv /\ NoWindow

Colorize ==
    /\ pc = "start"
    /\ colored' = ColoredText(text, wp)
    /\ pc' = "done"
    /\ UNCHANGED <<text, target, tokens, groups, blocks, raw, normalized,
                   bi, si, swp, warned, warnlog, hist, wp, resp, parsed, env,
                   out, status, display, shown>>

NextColor == Colorize

SpecColor == InitColor /\ [][NextColor]_vars

\* the word tokens of the article, lowercase, in order
TextWords(t) ==
    LET ws == WordsOf(tokenize_text(t))
    IN  [k \in 1..Len(ws) |-> Lower(ws[k])]

\* the position among the tokens of t of its j-th word token
RECURSIVE WordTokenIndex(_, _, _)
WordTokenIndex(toks, j, k) ==
    IF toks[k][2] = "word"
    THEN IF j = 1 THEN k ELSE WordTokenIndex(toks, j - 1, k + 1)
    ELSE WordTokenIndex(toks, j, k + 1)

\* the j-th word token of t is the N-th occurrence of its lowercase word
OccurrenceNo(ws, j) == Cardinality({i \in 1..j : ws[i] = ws[j]})

\* the list of the j-th word token's word has an entry N-1, counted from 0
HasScore(probs, ws, j) ==
    ws[j] \in DOMAIN probs /\ OccurrenceNo(ws, j) <= Len(probs[ws[j]])

\* that entry
ResolvedScore(probs, ws, j) == probs[ws[j]][OccurrenceNo(ws, j)]

\* the colours strictly above 0.7, strictly above 0.35, and the rest
TierNamed(score) ==
    IF score > 70 THEN "green" ELSE IF score > 35 THEN "yellow" ELSE "red"

\* C14: colored_text has one element per token, in token order, and the
\* element of the N-th occurrence of a word (counted from 1 over the
\* article's word tokens, case-insensitively) carries the colour of entry
\* N-1 of that word's score list whenever the list has such an entry.
C14_OccurrenceIndex ==
    pc = "done" =>
        \A toks \in {tokenize_text(text)} : \A ws \in {TextWords(text)} :
            /\ Len(colored) = Len(toks)
            /\ \A k \in 1..Len(toks) : colored[k][2] = toks[k][1]
            /\ \A j \in 1..Len(ws) :
                  HasScore(wp, ws, j) =>
                      colored[WordTokenIndex(toks, j, 1)][1]
                          = TierNamed(ResolvedScore(wp, ws, j))

\* "a A a" with [0.9, 0.5, 0.35] has been rendered green, yellow, red
C14_Witness ==
    /\ pc = "done"
    /\ text = <<"a", " ", "A", " ", "a">>
    /\ wp = Put(<<>>, <<"a">>, <<90, 50, 35>>)
    /\ colored = << <<"green", <<"a">>>>, <<"none", <<" ">>>>,
                    <<"yellow", <<"A">>>>, <<"none", <<" ">>>>,
                    <<"red", <<"a">>>> >>

\* C15: a word token is green exactly when its resolved probability is
\* above 0.7, yellow exactly when it is above 0.35 and not above 0.7, and
\* red otherwise, also when the word has no score list or no entry at its
\* occurrence index; punctuation and space tokens carry no colour and
\* every token's text is unchanged.
C15_Tiers ==
    pc = "done" =>
        \A toks \in {tokenize_text(text)} : \A ws \in {TextWords(text)} :
            /\ Len(colored) = Len(toks)
            /\ \A k \in 1..Len(toks) :
                  /\ colored[k][2] = toks[k][1]
                  /\ toks[k][2] # "word" <=> colored[k][1] = "none"
            /\ \A j \in 1..Len(ws) :
                  LET c == colored[WordTokenIndex(toks, j, 1)][1]
                      h == HasScore(wp, ws, j)
                      v == ResolvedScore(wp, ws, j)
                  IN  /\ c = "green" <=> (h /\ v > 70)
                      /\ c = "yellow" <=> (h /\ v > 35 /\ v <= 70)
                      /\ c = "red" <=> (~h \/ v <= 35)

\* "a aa." with [0.7] has been rendered: "a" at the threshold is yellow,
\* "aa" has no list and is red, the space and the full stop are uncoloured
C15_Witness ==
    /\ pc = "done"
    /\ text = <<"a", " ", "a", "a", ".">>
    /\ wp = Put(<<>>, <<"a">>, <<70>>)
    /\ colored = << <<"yellow", <<"a">>>>, <<"none", <<" ">>>>,
                    <<"red", <<"a", "a">>>>, <<"none", <<".">>>> >>

---------------------------------------------------------------------------
(* The pipeline: split_into_blocks, analyze_article against one source     *)
(* whose every response is {"probabilities": raw}, colorize_article.       *)

\* an analysis that stops after the first block
AnalyzeBlocks_firstOnly(bs, k, m, st) ==
    IF bs = <<>> THEN st
    ELSE process_probabilities(m, WordsOf(tokenize_text(bs[1])), st)

RECURSIVE AnalyzeBlocks(_, _, _, _)
\* the loop of analyze_article over the blocks from the k-th, for one
\* source, when every response is {"probabilities": m}; st holds the
\* source's lists, warned_words and the warnings
AnalyzeBlocks(bs, k, m, st) ==
    IF k > Len(bs) THEN st
    ELSE AnalyzeBlocks(bs, k + 1, m,
             process_probabilities(m, WordsOf(tokenize_text(bs[k])), st))

MaxPipeLen == 5

PipeChars == {"a", "B", ".", " "}

\* "A"  "b"
PipeWords == {<<"A">>, <<"b">>}

\* 0.9  0.2
PipeProbs == {[t |-> "num", v |-> 90], [t |-> "num", v |-> 20]}

InitPipe ==
    /\ pc = "start"
    /\ text \in SeqsUpTo(PipeChars, MaxPipeLen)
    /\ target \in 1..MaxTarget
    /\ raw \in RawDicts(PipeWords, PipeProbs, MaxRaw)
    /\ tokens = <<>> /\ groups = <<>> /\ blocks = <<>>
    /\ normalized = <<>>
    /\ bi = 1 /\ si = 1
    /\ swp = [s \in {SourceNames[1]} |-> <<>>]
    /\ warned = {} /\ warnlog = <<>>
    /\ hist = <<>>
    /\ NoRender /\ NoParse /\ NoEnv /\ NoWindow

\* article_blocks = split_into_blocks(article_text, target)
PipeSplit ==
    /\ pc = "start"
    /\ groups' = BlockGroups(text, target)
    /\ blocks' = split_into_blocks(text, target)
    /\ pc' = "split"
    /\ UNCHANGED <<text, target, tokens, raw, normalized, bi, si, swp,
                   warned, warnlog, hist, wp, colored, resp, parsed, env,
                   out, status, display, shown>>

\* source_word_probabilities = analyze_article(article_blocks, sources)
PipeAnalyze ==
    /\ pc = "split"
    /\ \A st \in {AnalyzeBlocks(blocks, 1, raw,
                      [sp |-> swp[SourceNames[1]], warned |-> warned,
                       log |-> warnlog])} :
          /\ swp' = [swp EXCEPT ![SourceNames[1]] = st.sp]
          /\ warned' = st.warned
          /\ warnlog' = st.log
    /\ bi' = Len(blocks) + 1
    /\ pc' = "analyzed"
    /\ UNCHANGED <<text, target, tokens, groups, blocks, raw, normalized,
                   si, hist, wp, colored, resp, parsed, env,
                   out, status, display, shown>>

\* colorize_article(article_text, source_word_probabilities[source])
PipeProject ==
    /\ pc = "analyzed"
    /\ wp' = swp[SourceNames[1]]
    /\ colored' = ColoredText(text, swp[SourceNames[1]])
    /\ pc' = "done"
    /\ UNCHANGED <<text, target, tokens, groups, blocks, raw, normalized,
                   bi, si, swp, warned, warnlog, hist, resp, parsed, env,
                   out, status, display, shown>>

NextPipe == PipeSplit \/ PipeAnalyze \/ PipeProject

SpecPipe == InitPipe /\ [][NextPipe]_vars

\* the score the map gives the lowercase word w: the probability of the
\* entry whose key is w in any case, 0 when there is none
MapScore(m, w) ==
    IF \E i \in 1..Len(m) : Lower(m[i][1]) = w
    THEN FloatVal(m[CHOOSE i \in 1..Len(m) : Lower(m[i][1]) = w][2])
    ELSE 0

\* C19: after the article has been split, analysed against one source
\* whose every response carries the map raw, and projected, every word
\* has exactly as many list entries as it has occurrences in the article's
\* token stream, and every word token carries the colour of the score raw
\* gives its lowercase form (red when raw has none).
C19_PipelineAligned ==
    pc = "done" =>
        \A toks \in {tokenize_text(text)} : \A ws \in {TextWords(text)} :
            /\ DOMAIN wp = {ws[j] : j \in 1..Len(ws)}
            /\ \A w \in DOMAIN wp : Len(wp[w]) = CountIn(ws, w)
            /\ Len(colored) = Len(toks)
            /\ \A j \in 1..Len(ws) :
                  /\ HasScore(wp, ws, j)
                  /\ ResolvedScore(wp, ws, j) = MapScore(raw, ws[j])
                  /\ colored[WordTokenIndex(toks, j, 1)]
                        = <<TierNamed(MapScore(raw, ws[j])),
                            toks[WordTokenIndex(toks, j, 1)][1]>>

\* "a. B." has been split into two blocks, scored with {"A": 0.9} and
\* projected: "a" is green, "B", which the map does not hold, is red
C19_Witness ==
    /\ pc = "done"
    /\ text = <<"a", ".", " ", "B", ".">>
    /\ Len(blocks) = 2
    /\ raw = << <<<<"A">>, [t |-> "num", v |-> 90]>> >>
    /\ colored = << <<"green", <<"a">>>>, <<"none", <<".">>>>,
                    <<"none", <<" ">>>>, <<"red", <<"B">>>>,
                    <<"none", <<".">>>> >>

---------------------------------------------------------------------------
(* main (wikifactcheck.py)                                                 *)
(*                                                                         *)
(* env is the environment of a run: key says whether OPENAI_API_KEY is     *)
(* set, readable whether article.txt can be read, content what it holds,   *)
(* nsrc how many files match source*.txt, gui whether --gui was given.     *)

\* target_size of split_into_blocks when main calls it
DefaultTargetSize == 100

\* a main that goes on without the credential
CredentialSet_always(e) == TRUE

\* api_key = os.environ.get("OPENAI_API_KEY"); not api_key is false
CredentialSet(e) == e.key

\* load_article("article.txt") returns
ArticleLoaded(e) == e.readable

\* load_sources(): the names of the files found, sorted
LoadedSources(e) == SubSeq(SourceNames, 1, e.nsrc)

\* query_chatgpt: every exception becomes {"probabilities": {}}
query_chatgpt(r) ==
    IF r.raises THEN EmptyProbabilities
    ELSE IF parse_response(r).exc THEN EmptyProbabilities
    ELSE parse_response(r).val

\* the body of the loop over response["probabilities"].items() for one
\* entry: the list is created first, the value appended when float() parses
RecordEntry(sp, word, prob) ==
    LET lw  == Lower(word)
        sp1 == IF lw \in DOMAIN sp THEN sp ELSE Put(sp, lw, <<>>)
    IN  IF FloatOK(prob) THEN Put(sp1, lw, Append(sp1[lw], FloatVal(prob)))
        ELSE sp1

RECURSIVE RecordEntries(_, _, _)
RecordEntries(sp, m, k) ==
    IF k > Len(m) THEN sp
    ELSE RecordEntries(RecordEntry(sp, m[k][1], m[k][2]), m, k + 1)

RECURSIVE Combine(_, _, _)
\* combined_probabilities: the lists of the sources from the k-th, extended
\* in the order of source_word_probabilities.values()
Combine(sps, names, k) ==
    IF k > Len(names) THEN <<>>
    ELSE LET rest == Combine(sps, names, k + 1)
             mine == sps[names[k]]
         IN  [w \in DOMAIN mine \cup DOMAIN rest |->
                 (IF w \in DOMAIN mine THEN mine[w] ELSE <<>>)
                 \o (IF w \in DOMAIN rest THEN rest[w] ELSE <<>>)]

RECURSIVE PunctAfter(_, _)
\* the punctuation tokens that follow, from the k-th token on, joined
PunctAfter(toks, k) ==
    IF k <= Len(toks) /\ toks[k][2] = "punctuation"
    THEN Lower(toks[k][1]) \o PunctAfter(toks, k + 1) ELSE <<>>

RECURSIVE PunctBefore(_, _)
\* the punctuation tokens that precede, from the k-th token back, joined
PunctBefore(toks, k) ==
    IF k >= 1 /\ toks[k][2] = "punctuation"
    THEN PunctBefore(toks, k - 1) \o Lower(toks[k][1]) ELSE <<>>

\* probs of the word token at position i
MainProbs(toks, i, probs) ==
    LET lw == Lower(toks[i][1])
        compound_word == lw \o PunctAfter(toks, i + 1)
        prev_compound_word == PunctBefore(toks, i - 1) \o lw
    IN  IF lw \in DOMAIN probs THEN probs[lw]
        ELSE IF compound_word \in DOMAIN probs THEN probs[compound_word]
        ELSE IF prev_compound_word \in DOMAIN probs THEN probs[prev_compound_word]
        ELSE <<>>

\* max(probs) if probs else 0.0
MaxProb(ps) ==
    IF ps = <<>> THEN 0
    ELSE CHOOSE x \in {ps[k] : k \in 1..Len(ps)} : \A k \in 1..Len(ps) : ps[k] <= x

\* colored_text of the colorize_article of wikifactcheck.py
MainColoredText(t, probs) ==
    LET toks == tokenize_text(t)
    IN  [i \in 1..Len(toks) |->
            IF toks[i][2] = "word"
            THEN <<(IF MaxProb(MainProbs(toks, i, probs)) > 70 THEN "green"
                    ELSE IF MaxProb(MainProbs(toks, i, probs)) > 35 THEN "yellow"
                    ELSE "red"), toks[i][1]>>
            ELSE <<"none", toks[i][1]>>]

MaxMainLen == 3

\* {"a": 0.35}
ScoresLow == << <<<<"a">>, [t |-> "num", v |-> 35]>> >>

\* what the scorer answers in a run of main
MainResponses ==
    ScorerResponses
        \cup {Response(FALSE, "", Body("obj", TRUE, "map", ScoresLow), "")}

\* the displays of the window a run follows
MaxSelections == 2

MainChars == {"a", "B", ","}

InitMain ==
    /\ pc = "main"
    /\ env \in {e \in [key : BOOLEAN, readable : BOOLEAN,
                        content : SeqsUpTo(MainChars, MaxMainLen),
                        nsrc : 0..Len(SourceNames), gui : BOOLEAN] :
                    ~e.readable => e.content = <<>>}
    /\ text = <<>> /\ target = DefaultTargetSize
    /\ tokens = <<>> /\ groups = <<>> /\ blocks = <<>>
    /\ raw = <<>> /\ normalized = <<>>
    /\ bi = 1 /\ si = 1 /\ swp = <<>> /\ warned = {} /\ warnlog = <<>>
    /\ hist = <<>>
    /\ out = <<>> /\ status = <<>>
    /\ NoRender /\ NoParse /\ NoWindow

\* main() has returned and the script ends: the exit status of the process
ReturnStatus == 0

\* print("Error: Please set the OPENAI_API_KEY environment variable")
MsgNoKey == "Error: Please set the OPENAI_API_KEY environment variable"

\* print("Error: No source files found (source*.txt)")
MsgNoSources == "Error: No source files found (source*.txt)"

\* logging.exception("An exception was thrown!"): the message and the
\* stack trace of the exception
MsgTraceback == "An exception was thrown! Traceback (most recent call last)"

\* print("\nColored Article Text:") and the coloured text
MsgColored == "Colored Article Text:"

\* print(f"Loaded source: {source_file}")
MsgLoaded(source_file) ==
    CASE source_file = "source1.txt" -> "Loaded source: source1.txt"
      [] source_file = "source2.txt" -> "Loaded source: source2.txt"

RECURSIVE LoadedMessages(_, _)
\* what load_sources prints: one line per file, from the k-th
LoadedMessages(names, k) ==
    IF k > Len(names) THEN <<>>
    ELSE <<MsgLoaded(names[k])>> \o LoadedMessages(names, k + 1)

\* print(f"Split article into {len(blocks)} blocks")
MsgSplit(n) ==
    CASE n = 0 -> "Split article into 0 blocks"
      [] n = 1 -> "Split article into 1 blocks"
      [] n = 2 -> "Split article into 2 blocks"
      [] n = 3 -> "Split article into 3 blocks"

\* print(f"Processing block {i+1}/{len(article_blocks)}...")
MsgProcessing(i, n) ==
    CASE i = 1 /\ n = 1 -> "Processing block 1/1..."
      [] i = 1 /\ n = 2 -> "Processing block 1/2..."
      [] i = 2 /\ n = 2 -> "Processing block 2/2..."
      [] i = 1 /\ n = 3 -> "Processing block 1/3..."
      [] i = 2 /\ n = 3 -> "Processing block 2/3..."
      [] i = 3 /\ n = 3 -> "Processing block 3/3..."

\* print(f"  Checking against source: {source_name}")
MsgChecking(source_name) ==
    CASE source_name = "source1.txt" -> "  Checking against source: source1.txt"
      [] source_name = "source2.txt" -> "  Checking against source: source2.txt"

\* print(f"Failed to parse JSON response: {response_text[:100]}..."): the
\* line without the response text
MsgParseFailed == "Failed to parse JSON response:"

\* print(f"Error querying ChatGPT: {e}"): the line without the text of
\* the exception
MsgQueryError == "Error querying ChatGPT:"

\* print(f"Warning: Invalid probability for word '{word}': {prob}"): the
\* line without the word and the value
MsgInvalid == "Warning: Invalid probability for word"

\* what query_chatgpt prints for response r: the call or the json.loads of
\* the span in braces raises, or the text holds no span in braces
QueryMessages(r) ==
    IF r.raises THEN <<MsgQueryError>>
    ELSE IF IsPureJson(r) THEN <<>>
    ELSE IF HasBraceSpan(r)
    THEN IF SpanIsJson(r) THEN <<>> ELSE <<MsgQueryError>>
    ELSE <<MsgParseFailed>>

RECURSIVE InvalidMessages(_, _)
\* what the loop over response["probabilities"].items() prints, from the
\* k-th entry: one warning per value float() does not parse
InvalidMessages(m, k) ==
    IF k > Len(m) THEN <<>>
    ELSE (IF FloatOK(m[k][2]) THEN <<>> ELSE <<MsgInvalid>>)
         \o InvalidMessages(m, k + 1)

\* the content of text_display after display_article_for_source of the
\* WikiFactCheckGUI of wikifactcheck.py: cleared, then one insert per token,
\* a word token with the tag of the maximum of its list
MainWindowText(d, t, probs, source_name) ==
    LET toks == tokenize_text(t)
        cleared == <<>>
    IN  cleared \o
        [i \in 1..Len(toks) |->
            IF toks[i][2] = "word"
            THEN <<(IF MaxProb(MainProbs(toks, i, probs[source_name])) > 70
                    THEN "green"
                    ELSE IF MaxProb(MainProbs(toks, i, probs[source_name])) > 35
                    THEN "yellow"
                    ELSE "red"), toks[i][1]>>
            ELSE <<"none", toks[i][1]>>]

\* lines 382-392: the credential check and the client
MainCheckKey ==
    /\ pc = "main"
    /\ IF CredentialSet(env)
       THEN /\ pc' = "load"
            /\ UNCHANGED <<out, status>>
       ELSE /\ out' = Append(out, MsgNoKey)
            /\ status' = <<ReturnStatus>>
            /\ pc' = "returned"
    /\ UNCHANGED <<text, target, tokens, groups, blocks, raw, normalized,
                   bi, si, swp, warned, warnlog, hist,
                   wp, colored, resp, parsed, env, display, shown>>

\* lines 396-404: load_article raises (and the except clause of main logs
\* it), or no source is found, or the article is split; load_sources and
\* split_into_blocks print what they did
MainLoad ==
    /\ pc = "load"
    /\ IF ~ArticleLoaded(env)
       THEN /\ out' = Append(out, MsgTraceback)
            /\ status' = <<ReturnStatus>>
            /\ pc' = "returned"
            /\ UNCHANGED <<text, groups, blocks, swp>>
       ELSE /\ text' = env.content
            /\ IF LoadedSources(env) = <<>>
               THEN /\ out' = Append(out, MsgNoSources)
                    /\ status' = <<ReturnStatus>>
                    /\ pc' = "returned"
                    /\ UNCHANGED <<groups, blocks, swp>>
               ELSE /\ groups' = BlockGroups(env.content, target)
                    /\ blocks' = split_into_blocks(env.content, target)
                    /\ swp' = [s \in {SourceNames[k] : k \in 1..env.nsrc} |-> <<>>]
                    /\ pc' = IF split_into_blocks(env.content, target) = <<>>
                             THEN "show" ELSE "process"
                    /\ out' = out \o LoadedMessages(LoadedSources(env), 1)
                                  \o <<MsgSplit(Len(split_into_blocks(env.content, target)))>>
                    /\ UNCHANGED status
    /\ UNCHANGED <<target, tokens, raw, normalized, bi, si, warned, warnlog,
                   hist, wp, colored, resp, parsed, env, display, shown>>

\* one pass of the inner loop of process_article_blocks, with the line the
\* outer loop prints before the first source of a block; an exception
\* leaves it and is logged by the except clause of main
MainProcessPair ==
    /\ pc = "process"
    /\ \E r \in MainResponses :
         LET response == query_chatgpt(r)
             src      == SourceNames[si]
             said     == (IF si = 1
                          THEN <<MsgProcessing(bi, Len(blocks))>> ELSE <<>>)
                         \o <<MsgChecking(src)>> \o QueryMessages(r)
         IN  /\ hist' = Append(hist, [b |-> bi, s |-> src, r |-> r])
             /\ IF MembershipRaises(response) \/ ItemsRaises(response)
                THEN /\ out' = (out \o said) \o <<MsgTraceback>>
                     /\ status' = <<ReturnStatus>>
                     /\ pc' = "returned"
                     /\ UNCHANGED <<bi, si, swp>>
                ELSE /\ swp' = IF HasProbabilities(response)
                               THEN [swp EXCEPT ![src] =
                                        RecordEntries(swp[src], response.m, 1)]
                               ELSE swp
                     /\ IF si < env.nsrc
                        THEN si' = si + 1 /\ bi' = bi
                        ELSE si' = 1 /\ bi' = bi + 1
                     /\ pc' = IF si = env.nsrc /\ bi = Len(blocks)
                              THEN "show" ELSE "process"
                     /\ out' = (out \o said)
                              \o (IF HasProbabilities(response)
                                  THEN InvalidMessages(response.m, 1)
                                  ELSE <<>>)
                     /\ UNCHANGED status
    /\ UNCHANGED <<text, target, tokens, groups, blocks, raw, normalized,
                   warned, warnlog, wp, colored, resp, parsed, env,
                   display, shown>>

\* lines 409-426: the window, which displays the article for the first
\* source when it is built, or the combined lists and the coloured text
MainShow ==
    /\ pc = "show"
    /\ IF env.gui
       THEN /\ \A s \in {LoadedSources(env)[1]} :
                 \A d \in {MainWindowText(display, text, swp, s)} :
                   /\ display' = d
                   /\ shown' = Append(shown, [view |-> "window", src |-> s,
                                              content |-> d])
            /\ pc' = "gui"
            /\ UNCHANGED <<wp, colored, out, status>>
       ELSE /\ wp' = Combine(swp, LoadedSources(env), 1)
            /\ colored' = MainColoredText(text, Combine(swp, LoadedSources(env), 1))
            /\ out' = Append(out, MsgColored)
            /\ status' = <<ReturnStatus>>
            /\ pc' = "returned"
            /\ UNCHANGED <<display, shown>>
    /\ UNCHANGED <<text, target, tokens, groups, blocks, raw, normalized,
                   bi, si, swp, warned, warnlog, hist, resp, parsed, env>>

\* the <<ListboxSelect>> callback inside root.mainloop(): on_source_selected
\* displays the article for the selected entry
MainSelectSource ==
    /\ pc = "gui"
    /\ Len(shown) < MaxSelections
    /\ \E k \in 1..env.nsrc :
         \A s \in {LoadedSources(env)[k]} :
           \A d \in {MainWindowText(display, text, swp, s)} :
             /\ display' = d
             /\ shown' = Append(shown, [view |-> "window", src |-> s,
                                        content |-> d])
    /\ UNCHANGED <<pc, text, target, tokens, groups, blocks, raw, normalized,
                   bi, si, swp, warned, warnlog, hist, wp, colored,
                   resp, parsed, env, out, status>>

\* root.mainloop() returns: the window was closed
MainCloseWindow ==
    /\ pc = "gui"
    /\ status' = <<ReturnStatus>>
    /\ pc' = "returned"
    /\ UNCHANGED <<text, target, tokens, groups, blocks, raw, normalized,
                   bi, si, swp, warned, warnlog, hist, wp, colored,
                   resp, parsed, env, out, display, shown>>

NextMain ==
    \/ MainCheckKey \/ MainLoad \/ MainProcessPair \/ MainShow
    \/ MainSelectSource \/ MainCloseWindow

SpecMain == InitMain /\ [][NextMain]_vars

\* the run cannot score: no credential, no article, or no source
CannotScore(e) == ~e.key \/ ~e.readable \/ e.nsrc = 0

\* C20: when the credential is missing, the article file cannot be read
\* or no source file is found, main never enters process_article_blocks
\* and no scorer request is ever issued.
C20_NoRequestBeforeAbort ==
    CannotScore(env) =>
        /\ hist = <<>>
        /\ pc \in {"main", "load", "returned"}

\* a run with the credential and two sources whose article file cannot be
\* read has ended without a request
C20_Witness ==
    /\ pc = "returned"
    /\ env.key /\ ~env.readable /\ env.nsrc = 2
    /\ hist = <<>>

\* the messages printed or logged so far
Printed == {out[k] : k \in 1..Len(out)}

\* C21: a run without the credential, and a run with the credential and
\* the article but without any source file, end with a non-zero exit
\* status after printing the message that explains the condition, and
\* neither logs a stack trace.
C21_FatalExit ==
    /\ (status # <<>> /\ ~env.key) =>
          /\ status # <<0>>
          /\ MsgNoKey \in Printed
          /\ MsgTraceback \notin Printed
    /\ (status # <<>> /\ env.key /\ env.readable /\ env.nsrc = 0) =>
          /\ status # <<0>>
          /\ MsgNoSources \in Printed
          /\ MsgTraceback \notin Printed

\* the list source s holds for word w, empty when it holds none
SourceList(s, w) == IF w \in DOMAIN swp[s] THEN swp[s][w] ELSE <<>>

\* the words some source holds a list for
ScoredWords == UNION {DOMAIN swp[s] : s \in DOMAIN swp}

\* source s holds, for every word of the article, one score per occurrence
FullLength(s) ==
    \A ws \in {TextWords(text)} :
        \A j \in 1..Len(ws) :
            Len(SourceList(s, ws[j])) = Cardinality({i \in 1..Len(ws) : ws[i] = ws[j]})

\* C27: when main has printed the coloured text of a run with two sources,
\* the combined view holds for every word the list of the first source
\* followed by the list of the second; a word token whose occurrence index
\* is within the first source's list has the colour of the first source's
\* score at that index, and when the first source's lists are full length
\* the combined rendering is the rendering of the first source alone.
C27_CombinedIsFirstSource ==
    (pc = "returned" /\ MsgColored \in Printed /\ env.nsrc = 2) =>
        \A s1 \in {SourceNames[1]} : \A s2 \in {SourceNames[2]} :
        \A toks \in {tokenize_text(text)} : \A ws \in {TextWords(text)} :
            /\ DOMAIN wp = ScoredWords
            /\ \A w \in ScoredWords :
                  wp[w] = SourceList(s1, w) \o SourceList(s2, w)
            /\ \A j \in 1..Len(ws) :
                  HasScore(swp[s1], ws, j) =>
                      colored[WordTokenIndex(toks, j, 1)][1]
                          = TierNamed(ResolvedScore(swp[s1], ws, j))
            /\ FullLength(s1) => colored = ColoredText(text, swp[s1])

---------------------------------------------------------------------------
(* WikiFactCheckGUI (visualization/gui.py) and the terminal renderer on    *)
(* the same analysis result.                                               *)
(*                                                                         *)
(* display is the content of text_display: one pair <<tag, token>> per     *)
(* insert, the tag being "green", "yellow" or "red", or "none" for an      *)
(* insert without a tag.  shown records every rendering made so far: the   *)
(* renderer ("window" or "terminal"), the source it was made for and what  *)
(* it produced.                                                            *)

\* a window that keeps what it showed before
ClearDisplay_keep(d) == d

\* self.text_display.delete(1.0, tk.END)
ClearDisplay(d) == <<>>

\* a window that takes a probability equal to a threshold as above it
GuiTag_inclusive(prob) ==
    IF prob >= HIGH_SUPPORT_THRESHOLD THEN "green"
    ELSE IF prob >= PARTIAL_SUPPORT_THRESHOLD THEN "yellow"
    ELSE "red"

\* the tag the if / elif / else on prob inserts the token with
GuiTag(prob) ==
    IF prob > HIGH_SUPPORT_THRESHOLD THEN "green"
    ELSE IF prob > PARTIAL_SUPPORT_THRESHOLD THEN "yellow"
    ELSE "red"

\* word_occurrences[word_lower] after the update in the window's loop
GuiOccurrence(occ, lw) == IF lw \notin DOMAIN occ THEN 0 ELSE occ[lw] + 1

\* the insert made for a word token: source_probs is
\* self.word_probabilities[source_name]
InsertWord(source_probs, token, cur) ==
    LET lw == Lower(token)
    IN  IF lw \in DOMAIN source_probs /\ cur < Len(source_probs[lw])
        THEN <<GuiTag(source_probs[lw][cur + 1]), token>>
        ELSE <<"red", token>>

RECURSIVE InsertScan(_, _, _, _, _)
\* the loop over the tokens from the k-th: occ is word_occurrences, d the
\* content of text_display
InsertScan(toks, k, source_probs, occ, d) ==
    IF k > Len(toks) THEN d
    ELSE IF toks[k][2] = "word"
    THEN LET lw  == Lower(toks[k][1])
             cur == GuiOccurrence(occ, lw)
         IN  InsertScan(toks, k + 1, source_probs, Put(occ, lw, cur),
                        Append(d, InsertWord(source_probs, toks[k][1], cur)))
    ELSE InsertScan(toks, k + 1, source_probs, occ,
                    Append(d, <<"none", toks[k][1]>>))

\* display_article_for_source(source_name): the content of text_display
\* after the call, d being its content before
display_article_for_source(d, t, probs, source_name) ==
    InsertScan(tokenize_text(t), 1, probs[source_name], <<>>, ClearDisplay(d))

\* the entries of sources_listbox: the keys of sources_data in order
ListedSources(probs) ==
    LET listed(s) == s \in DOMAIN probs
    IN  SelectSeq(SourceNames, listed)

MaxViewLen == 3

MaxRenders == 3

ViewChars == {"a", "A", "."}

\* 0.35  0.9
ViewScores == {35, 90}

\* what analysis left for one source: no list, or a list of "a"
ViewMaps ==
    {<<>>} \cup {Put(<<>>, <<"a">>, l) :
                    l \in SeqsUpTo(ViewScores, (MaxViewLen + 1) \div 2)}

InitView ==
    /\ pc = "new"
    /\ text \in SeqsUpTo(ViewChars, MaxViewLen)
    /\ swp \in {<<>>} \cup [{SourceNames[k] : k \in 1..Len(SourceNames)} -> ViewMaps]
    /\ display = <<>> /\ shown = <<>>
    /\ NoRender
    /\ tokens = <<>> /\ groups = <<>> /\ blocks = <<>>
    /\ target = 1 /\ raw = <<>> /\ normalized = <<>>
    /\ bi = 1 /\ si = 1 /\ warned = {} /\ warnlog = <<>>
    /\ hist = <<>>
    /\ NoParse /\ NoEnv

\* WikiFactCheckGUI(root, article_text, sources, source_word_probabilities):
\* the first source is selected and displayed when there is one
OpenWindow ==
    /\ pc = "new"
    /\ IF Len(ListedSources(swp)) > 0
       THEN \A s \in {ListedSources(swp)[1]} :
              \A d \in {display_article_for_source(display, text, swp, s)} :
                /\ display' = d
                /\ shown' = Append(shown, [view |-> "window", src |-> s,
                                           content |-> d])
       ELSE UNCHANGED <<display, shown>>
    /\ pc' = "open"
    /\ UNCHANGED <<text, target, tokens, groups, blocks, raw, normalized,
                   bi, si, swp, warned, warnlog, hist, wp, colored,
                   resp, parsed, env, out, status>>

\* on_source_selected with an entry of the listbox selected
SelectSource ==
    /\ pc = "open"
    /\ Len(shown) < MaxRenders
    /\ \E k \in 1..Len(ListedSources(swp)) :
         \A s \in {ListedSources(swp)[k]} :
           \A d \in {display_article_for_source(display, text, swp, s)} :
             /\ display' = d
             /\ shown' = Append(shown, [view |-> "window", src |-> s,
                                        content |-> d])
    /\ UNCHANGED <<pc, text, target, tokens, groups, blocks, raw, normalized,
                   bi, si, swp, warned, warnlog, hist, wp, colored,
                   resp, parsed, env, out, status>>

\* colorize_article(article_text, source_word_probabilities[source_name])
TerminalSource ==
    /\ pc = "open"
    /\ Len(shown) < MaxRenders
    /\ \E k \in 1..Len(ListedSources(swp)) :
         \A s \in {ListedSources(swp)[k]} :
           \A c \in {ColoredText(text, swp[s])} :
             /\ wp' = swp[s]
             /\ colored' = c
             /\ shown' = Append(shown, [view |-> "terminal", src |-> s,
                                        content |-> c])
    /\ UNCHANGED <<pc, text, target, tokens, groups, blocks, raw, normalized,
                   bi, si, swp, warned, warnlog, hist, resp, parsed, env,
                   out, status, display>>

NextView == OpenWindow \/ SelectSource \/ TerminalSource

SpecView == InitView /\ [][NextView]_vars

\* the text a rendering shows: its tokens one after the other
ShownText(c) == Concat([k \in 1..Len(c) |-> c[k][2]])

\* the renderings made so far agree with one another and with the article
RenderingsRepeat ==
    /\ \A i \in 1..Len(shown) : \A j \in 1..Len(shown) :
          (shown[i].view = shown[j].view /\ shown[i].src = shown[j].src)
              => shown[i].content = shown[j].content
    /\ \A i \in 1..Len(shown) : ShownText(shown[i].content) = text
    /\ (shown # <<>> /\ shown[Len(shown)].view = "window")
          => display = shown[Len(shown)].content

\* C25: no step of a renderer changes a score list, and every rendering
\* of a source shows what the earlier renderings of that source by the
\* same renderer showed, whatever was rendered in between; what is shown
\* has the article's text, and the window holds the last rendering only.
C25_RenderingReadsOnly == [](RenderingsRepeat) /\ [][swp' = swp]_vars

\* the window has shown the first source, then the second, then the first
\* again; the two sources give the words different tiers
C25_Witness ==
    /\ Len(shown) = 3
    /\ \A i \in 1..3 : shown[i].view = "window"
    /\ shown[1].src = SourceNames[1]
    /\ shown[2].src = SourceNames[2]
    /\ shown[3].src = SourceNames[1]
    /\ shown[1].content # shown[2].content
    /\ shown[3].content = shown[1].content
    /\ display = shown[1].content
    /\ Len(TextWords(text)) = 2

\* C26: a window rendering and a terminal rendering of the same source
\* have one element per token and give every token the same tier: the
\* same colour for a word token, none for the other tokens.
C26_SameTiers ==
    \A i \in 1..Len(shown) : \A j \in 1..Len(shown) :
        (/\ shown[i].view = "window"
         /\ shown[j].view = "terminal"
         /\ shown[i].src = shown[j].src)
            => /\ Len(shown[i].content) = Len(shown[j].content)
               /\ \A k \in 1..Len(shown[i].content) :
                     shown[i].content[k][1] = shown[j].content[k][1]

\* "a.A" with [0.9, 0.35] has been rendered by both: green, none, red
C26_Witness ==
    /\ \E i \in 1..Len(shown) : \E j \in 1..Len(shown) :
          /\ shown[i].view = "window"
          /\ shown[j].view = "terminal"
          /\ shown[i].src = shown[j].src
          /\ shown[i].content = << <<"green", <<"a">>>>, <<"none", <<".">>>>,
                                   <<"red", <<"A">>>> >>
          /\ shown[j].content = shown[i].content

=============================================================================
